---- MODULE Spec2Model ----
(***************************************************************************)
(* Model of InqConvergenceWorkChain (aiida_inq/workflows/convergence.py):  *)
(* the two-stage convergence sweep over an energy cutoff list and a        *)
(* k-point spacing list.  Strings are sequences of one-character strings,  *)
(* a Python float of the kspacing list is an integer number of hundredths, *)
(* a process node is referred to by its pk (its index in trials).          *)
(*                                                                         *)
(* The AiiDA engine is modelled by what the work chain relies on:          *)
(*  - a step of the outline runs to its end without interleaving;          *)
(*  - self.submit gives the new process the inputs as they are at the      *)
(*    call, self.out emits the output it is given;                         *)
(*  - self.to_context('<ns>.<key>') stores the awaitable, and on           *)
(*    resolution the node, at ctx.<ns>[<key>]: one key holds one value, so *)
(*    of several awaitables with one key the one resolved last remains;    *)
(*  - after a step the engine waits until every awaitable is resolved,     *)
(*    in any order, before it runs the next step;                          *)
(*  - a step that returns an exit code ends the work chain with it, an     *)
(*    exception raised in a step ends it excepted.                         *)
(***************************************************************************)
EXTENDS Integers, Sequences, FiniteSets, TLC

VARIABLES
    energy_list,    \* self.inputs.energy_list
    kspacing_list,  \* self.inputs.kspacing_list
    pc,             \* position of the work chain in its outline
    ctx,            \* self.ctx: a mapping from attribute name to value
    trials,         \* every submitted InqBaseWorkchain, indexed by pk
    awaitables,     \* pks the work chain is still waiting for
    reports,        \* labels cited by the failure reports, in order
    exit_status,    \* exit status of the work chain once it has ended
    exception,      \* name of the exception that ended the work chain, or ""
    outputs,        \* outputs emitted with self.out
    history,        \* the outline steps run so far, "wait" after a step the
                    \* engine suspended the work chain at
    job             \* the InqCalculation node handed to InqParser.parse

vars == <<energy_list, kspacing_list, pc, ctx, trials, awaitables, reports,
          exit_status, exception, outputs, history, job>>

----------------------------------------------------------------------------
(* Bounds of the model *)

\* most entries energy_list and kspacing_list hold together
MaxTrials == 3

(* Program constants *)

INQ_CALCULATION_FAILED == 401

----------------------------------------------------------------------------
(* Python values and strings *)

\* A value that is either a Python int or a Python str.
PyInt(n) == [isstr |-> FALSE, int |-> n, str |-> <<>>]
PyStr(s) == [isstr |-> TRUE, int |-> 0, str |-> s]

DigitChars == <<"0", "1", "2", "3", "4", "5", "6", "7", "8", "9">>

DigitVal(c) == (CHOOSE d \in 1..10 : DigitChars[d] = c) - 1

\* str(n) of a natural number
RECURSIVE IntStr(_)
IntStr(n) ==
    IF n < 10 THEN <<DigitChars[n + 1]>>
    ELSE IntStr(n \div 10) \o <<DigitChars[(n % 10) + 1]>>

\* int(s) of a string of digits
RECURSIVE ParseInt(_)
ParseInt(s) ==
    IF s = <<>> THEN 0
    ELSE 10 * ParseInt(SubSeq(s, 1, Len(s) - 1)) + DigitVal(s[Len(s)])

\* s.split(c): the pieces of s between the occurrences of c, empty ones kept
RECURSIVE SplitOn(_, _)
SplitOn(s, c) ==
    IF \A i \in 1..Len(s) : s[i] # c THEN <<s>>
    ELSE LET i == CHOOSE j \in 1..Len(s) :
                      s[j] = c /\ \A k \in 1..(j - 1) : s[k] # c
         IN <<SubSeq(s, 1, i - 1)>> \o SplitOn(SubSeq(s, i + 1, Len(s)), c)

\* s.split(): the whitespace-separated words of s, empty ones dropped
SplitWS(s) == SelectSeq(SplitOn(s, " "), LAMBDA w : w # <<>>)

\* c.join(parts)
RECURSIVE Join(_, _)
Join(parts, c) ==
    IF parts = <<>> THEN <<>>
    ELSE IF Len(parts) = 1 THEN parts[1]
    ELSE parts[1] \o <<c>> \o Join(Tail(parts), c)

\* needle in hay, for two strings
InStr(needle, hay) ==
    \E i \in 1..(Len(hay) + 1) :
        /\ i + Len(needle) - 1 <= Len(hay)
        /\ SubSeq(hay, i, i + Len(needle) - 1) = needle

\* str(x) of a Python float x given in hundredths: shortest repr, e.g. 0.2
FloatStr(h) ==
    LET frac == h % 100
    IN IntStr(h \div 100) \o <<".">> \o
       (IF frac % 10 = 0 THEN IntStr(frac \div 10)
        ELSE IntStr(frac \div 10) \o IntStr(frac % 10))

\* float(s) in hundredths, for s of the form digits[.digits]
ParseFloat(s) ==
    LET parts == SplitOn(s, ".")
        frac == IF Len(parts) > 1 THEN parts[2] ELSE <<>>
        tenths == IF Len(frac) >= 1 THEN DigitVal(frac[1]) ELSE 0
        hundredths == IF Len(frac) >= 2 THEN DigitVal(frac[2]) ELSE 0
    IN 100 * ParseInt(parts[1]) + 10 * tenths + hundredths

\* d[k] = v on a mapping: a new key is added, an old one replaced
Put(d, k, v) == [x \in DOMAIN d \cup {k} |-> IF x = k THEN v ELSE d[x]]

\* d.pop(k)
Pop(d, k) == [x \in DOMAIN d \ {k} |-> d[x]]

\* d[key] = v on an insertion-ordered dict held as a sequence of items
DictSet(items, key, v) ==
    IF \E i \in 1..Len(items) : items[i].key = key
    THEN [i \in 1..Len(items) |->
             IF items[i].key = key THEN [key |-> key, val |-> v] ELSE items[i]]
    ELSE Append(items, [key |-> key, val |-> v])

----------------------------------------------------------------------------
(* Inputs of the work chain *)

Str8Ha == <<"8", " ", "H", "a">>
Str10Ha == <<"1", "0", " ", "H", "a">>
Str30Ry == <<"3", "0", " ", "R", "y">>

\* values an energy_list entry is drawn from
EnergyChoices == {Str8Ha, Str10Ha}

\* values a kspacing_list entry is drawn from: 0.2, 0.15, 0.1
KspacingChoices == {20, 15, 10}

\* total energies a finished trial may report
EnergyOutcomes == {-2, -1, 0}

\* lengths, in hundredths, of the reciprocal lattice vectors of the structure
ReciprocalCell == <<30, 30, 45>>

SeqsUpTo(S, n) == UNION {[1..m -> S] : m \in 0..n}

\* inq.parameters of the exposed InqBaseWorkchain inputs
BaselineParameters ==
    [electrons |-> [cutoff |-> PyStr(Str30Ry), spin |-> "unpolarized"],
     theory |-> [functional |-> "pbe"],
     run |-> [ground_state |-> ""]]

ExposedInputs ==
    [inq |-> [parameters |-> BaselineParameters, structure |-> "none"],
     metadata |-> [label |-> <<>>, call_link_label |-> <<>>]]

----------------------------------------------------------------------------
(* The work chain engine *)

EmptyMap == [x \in {} |-> 0]

\* no calculation node is being parsed while the work chain runs
NoJob == [phase |-> "none"]

Init ==
    /\ energy_list \in SeqsUpTo(EnergyChoices, MaxTrials)
    /\ kspacing_list \in SeqsUpTo(KspacingChoices, MaxTrials - Len(energy_list))
    /\ pc = "setup"
    /\ ctx = EmptyMap
    /\ trials = <<>>
    /\ awaitables = {}
    /\ reports = <<>>
    /\ exit_status = 0
    /\ exception = ""
    /\ outputs = EmptyMap
    /\ history = <<>>
    /\ job = NoJob

\* What the engine does when a step of the outline returns without an exit
\* code: it waits while awaitables are outstanding, else runs the next step.
AfterStepNoBarrier(aw, waiting, next) == next

AfterStepOffByOne(aw, waiting, next) ==
    IF Cardinality(aw) > 1 THEN waiting ELSE next

AfterStep(aw, waiting, next) == IF aw # {} THEN waiting ELSE next

\* the positions at which the work chain is suspended on its awaitables
WaitStates == {"wait_energy", "wait_kspacing"}

\* The history once the outline step `step` has run and left the work chain
\* at next_pc: the step, and "wait" if the engine suspended after it.
Ran(step, next_pc) ==
    history \o <<step>> \o (IF next_pc \in WaitStates THEN <<"wait">> ELSE <<>>)

\* the process is submitted, and submitted once more
SubmitTwice(ts, stage, inputs) ==
    LET process == [stage |-> stage, inputs |-> inputs, status |-> "running",
                    energy |-> 0]
    IN Append(Append(ts, process), process)

\* self.submit(InqBaseWorkchain, **inputs): the new process keeps the inputs
\* it was given; its pk is its index in trials.
Submit(ts, stage, inputs) ==
    Append(ts, [stage |-> stage, inputs |-> inputs, status |-> "running",
                energy |-> 0])

\* the future is stored in the context without being awaited
ToContextNotAwaited(st, ns, key, pk) ==
    [st EXCEPT !.dict = DictSet(@, key, pk)]

\* self.to_context(**{'<ns>.<key>': future}): the awaitable is recorded and
\* takes its place in the nested context dict ctx.<ns> under <key>.
ToContext(st, ns, key, pk) ==
    [st EXCEPT !.aw = @ \cup {[pk |-> pk, ns |-> ns, key |-> key]},
               !.dict = DictSet(@, key, pk)]

SetCutoff(inputs, v) ==
    [inputs EXCEPT !.inq.parameters.electrons.cutoff = v]

SetLabels(inputs, label) ==
    [inputs EXCEPT !.metadata.label = label,
                   !.metadata.call_link_label = label]

----------------------------------------------------------------------------
(* setup *)

setup ==
    /\ pc = "setup"
    /\ ctx' = [inputs |-> Put(ExposedInputs, "settings", EmptyMap),
               parameters |-> ExposedInputs.inq.parameters,
               results |-> [energy |-> <<>>, kspacing |-> <<>>]]
    /\ pc' = "run_energy"
    /\ UNCHANGED <<energy_list, kspacing_list, trials, awaitables, reports,
                   exit_status, exception, outputs>>
    /\ history' = Ran("setup", pc')
    /\ UNCHANGED job

----------------------------------------------------------------------------
(* run_energy *)

EnergyPrefix == <<"e", "n", "e", "r", "g", "y", "_">>

EnergyKey(energy) == Join(SplitWS(energy), "_")

EnergyLabel(energy) == EnergyPrefix \o EnergyKey(energy)

\* One pass of the loop body for energy_list[i], then the rest of the loop.
\* st = [inputs, ts, aw, dict]: the inputs object, the processes submitted,
\* the awaitables and ctx.energy so far.
RECURSIVE RunEnergyLoop(_, _)
RunEnergyLoop(i, st) ==
    IF i > Len(energy_list) THEN st
    ELSE LET energy == energy_list[i]
             inputs == SetLabels(SetCutoff(st.inputs, PyStr(energy)),
                                 EnergyLabel(energy))
             ts == Submit(st.ts, 1, inputs)
             st1 == [st EXCEPT !.inputs = inputs, !.ts = ts]
         IN RunEnergyLoop(i + 1, ToContext(st1, "energy", EnergyKey(energy), Len(ts)))

run_energy ==
    /\ pc = "run_energy"
    /\ LET popped == Pop(ctx.inputs, "settings")
           inputs == [popped EXCEPT
                         !.inq.structure = "structure",
                         !.inq.parameters.electrons = [cutoff |-> PyInt(0)]]
           st == RunEnergyLoop(1, [inputs |-> inputs, ts |-> trials,
                                   aw |-> awaitables, dict |-> <<>>])
       IN /\ trials' = st.ts
          /\ awaitables' = st.aw
          /\ ctx' = IF st.dict = <<>> THEN Put(ctx, "inputs", st.inputs)
                    ELSE Put(Put(ctx, "inputs", st.inputs), "energy", st.dict)
          /\ pc' = AfterStep(st.aw, "wait_energy", "check_energy")
    /\ UNCHANGED <<energy_list, kspacing_list, reports, exit_status,
                   exception, outputs>>
    /\ history' = Ran("run_energy", pc')
    /\ UNCHANGED job

----------------------------------------------------------------------------
(* the awaitables *)

\* A submitted process reaches a terminal state and the engine resolves its
\* awaitable: the node replaces the awaitable in the context, under its key.
\* The step after the barrier is run once no awaitable is left.
resolve_awaitable(a) ==
    /\ pc \in {"wait_energy", "wait_kspacing"}
    /\ a \in awaitables
    /\ \E ok \in BOOLEAN : \E e \in EnergyOutcomes :
          /\ ~ok => e = 0
          /\ trials' = [trials EXCEPT
                           ![a.pk].status = IF ok THEN "finished_ok" ELSE "failed",
                           ![a.pk].energy = e]
    /\ ctx' = IF a.ns = "energy"
              THEN [ctx EXCEPT !.energy = DictSet(@, a.key, a.pk)]
              ELSE [ctx EXCEPT !.kspacing.items = DictSet(@, a.key, a.pk)]
    /\ awaitables' = awaitables \ {a}
    /\ pc' = IF pc = "wait_energy"
             THEN AfterStep(awaitables', "wait_energy", "check_energy")
             ELSE AfterStep(awaitables', "wait_kspacing", "check_kspacing")
    /\ UNCHANGED <<energy_list, kspacing_list, reports, exit_status,
                   exception, outputs>>
    /\ UNCHANGED <<history, job>>

----------------------------------------------------------------------------
(* check_energy *)

\* The loop over self.ctx.energy.items() from item i on.
\* acc = [failed, label, selected, results]
RECURSIVE CheckEnergyLoop(_, _, _)
CheckEnergyLoop(items, i, acc) ==
    IF i > Len(items) THEN acc
    ELSE LET label == items[i].key
             workchain == trials[items[i].val]
         IN IF workchain.status # "finished_ok"
            THEN [acc EXCEPT !.failed = TRUE, !.label = label]
            ELSE LET energy == workchain.energy
                     cutoff == workchain.inputs.inq.parameters.electrons.cutoff
                     min_energy == 0
                     selected == IF energy < min_energy THEN cutoff
                                 ELSE acc.selected
                 IN CheckEnergyLoop(items, i + 1,
                        [acc EXCEPT !.selected = selected,
                                    !.results = DictSet(@, label, energy)])

check_energy ==
    /\ pc = "check_energy"
    /\ IF "energy" \notin DOMAIN ctx
       THEN \* self.ctx.energy: the AttributeDict has no such attribute
            /\ pc' = "excepted"
            /\ exception' = "AttributeError"
            /\ UNCHANGED <<ctx, reports, exit_status>>
       ELSE LET acc == CheckEnergyLoop(ctx.energy, 1,
                           [failed |-> FALSE, label |-> <<>>,
                            selected |-> PyInt(0),
                            results |-> ctx.results.energy])
                ctx1 == [ctx EXCEPT !.results.energy = acc.results]
            IN IF acc.failed
               THEN /\ reports' = Append(reports, acc.label)
                    /\ exit_status' = INQ_CALCULATION_FAILED
                    /\ pc' = "finished"
                    /\ ctx' = ctx1
                    /\ UNCHANGED exception
               ELSE /\ ctx' = Put(ctx1, "energy_cutoff", acc.selected)
                    /\ pc' = AfterStep(awaitables, "wait_energy", "run_kspacing")
                    /\ UNCHANGED <<reports, exit_status, exception>>
    /\ UNCHANGED <<energy_list, kspacing_list, trials, awaitables, outputs>>
    /\ history' = Ran("check_energy", pc')
    /\ UNCHANGED job

----------------------------------------------------------------------------
(* run_kspacing *)

KspacingPrefix == <<"k", "s", "p", "a", "c", "i", "n", "g", "_">>

KspacingKey(kspacing) == Join(SplitOn(FloatStr(kspacing), "."), "_")

KspacingLabel(kspacing) == KspacingPrefix \o KspacingKey(kspacing)

Max(a, b) == IF a >= b THEN a ELSE b

Ceil(a, b) == (a + b - 1) \div b

\* the spacing is taken for a density: the count grows with it
KpointsMeshByDensity(kspacing) ==
    [i \in 1..Len(ReciprocalCell) |->
        Max(Ceil(ReciprocalCell[i] * kspacing, 100), 1)]

\* KpointsData.set_kpoints_mesh_from_density(kspacing, force_parity=False)
\* followed by get_kpoints_mesh()[0]: per reciprocal vector, the smallest
\* count whose spacing is at most kspacing, and at least one.
KpointsMesh(kspacing) ==
    [i \in 1..Len(ReciprocalCell) |-> Max(Ceil(ReciprocalCell[i], kspacing), 1)]

\* ' '.join([str(k) for k in kpoints])
MeshStr(mesh) == Join([i \in 1..Len(mesh) |-> IntStr(mesh[i])], " ")

\* kpoints not in kpoint_mesh[:][1]: the second element of a copy of the list
NotInMesh(kpoints, kpoint_mesh) == ~InStr(kpoints, kpoint_mesh[2])

\* One pass of the loop body for kspacing_list[i], then the rest of the loop.
\* st = [inputs, ts, aw, dict, kpoint_mesh]
RECURSIVE RunKspacingLoop(_, _)
RunKspacingLoop(i, st) ==
    IF i > Len(kspacing_list) THEN st
    ELSE LET kspacing == kspacing_list[i]
             kpoints == MeshStr(KpointsMesh(kspacing))
         IN IF NotInMesh(kpoints, st.kpoint_mesh)
            THEN LET inputs == SetLabels(
                         [st.inputs EXCEPT !.inq.parameters =
                                        Put(@, "kpoints", [grid |-> kpoints])],
                         KspacingLabel(kspacing))
                     ts == Submit(st.ts, 2, inputs)
                     st1 == [st EXCEPT
                                !.kpoint_mesh = Append(@, <<kspacing, kpoints>>),
                                !.inputs = inputs, !.ts = ts]
                 IN RunKspacingLoop(i + 1,
                        ToContext(st1, "kspacing", KspacingKey(kspacing), Len(ts)))
            ELSE RunKspacingLoop(i + 1, st)

\* the value the stage-2 inputs take as energy cutoff
Stage2CutoffBaseline(c) == c.parameters.electrons.cutoff

Stage2Cutoff(c) == c.energy_cutoff

run_kspacing ==
    /\ pc = "run_kspacing"
    /\ LET params == ctx.inputs.inq.parameters
           params1 == Put(Put(params, "electrons", [cutoff |-> Stage2Cutoff(ctx)]),
                          "kpoints", [grid |-> <<>>])
           inputs == [ctx.inputs EXCEPT !.inq.structure = "structure",
                                        !.inq.parameters = params1]
           st == RunKspacingLoop(1, [inputs |-> inputs, ts |-> trials,
                                     aw |-> awaitables, dict |-> <<>>,
                                     kpoint_mesh |-> << <<>>, <<>> >>])
       IN /\ trials' = st.ts
          /\ awaitables' = st.aw
          /\ ctx' = IF st.dict = <<>> THEN Put(ctx, "inputs", st.inputs)
                    ELSE Put(Put(ctx, "inputs", st.inputs), "kspacing",
                             [isdict |-> TRUE, items |-> st.dict, value |-> 0])
          /\ pc' = AfterStep(st.aw, "wait_kspacing", "check_kspacing")
    /\ UNCHANGED <<energy_list, kspacing_list, reports, exit_status,
                   exception, outputs>>
    /\ history' = Ran("run_kspacing", pc')
    /\ UNCHANGED job

----------------------------------------------------------------------------
(* check_kspacing *)

\* float('.'.join(label.split('_')))
KspacingOfKey(key) == ParseFloat(Join(SplitOn(key, "_"), "."))

\* The loop over self.ctx.kspacing.items() from item i on.
RECURSIVE CheckKspacingLoop(_, _, _)
CheckKspacingLoop(items, i, acc) ==
    IF i > Len(items) THEN acc
    ELSE LET label == KspacingOfKey(items[i].key)
             workchain == trials[items[i].val]
         IN IF workchain.status # "finished_ok"
            THEN [acc EXCEPT !.failed = TRUE, !.label = label]
            ELSE LET energy == workchain.energy
                     min_energy == 0
                     selected == IF energy < min_energy THEN label
                                 ELSE acc.selected
                 IN CheckKspacingLoop(items, i + 1,
                        [acc EXCEPT !.selected = selected,
                                    !.results = DictSet(@, label, energy)])

check_kspacing ==
    /\ pc = "check_kspacing"
    /\ IF "kspacing" \notin DOMAIN ctx
       THEN \* self.ctx.kspacing: the AttributeDict has no such attribute
            /\ pc' = "excepted"
            /\ exception' = "AttributeError"
            /\ UNCHANGED <<ctx, reports, exit_status>>
       ELSE LET acc == CheckKspacingLoop(ctx.kspacing.items, 1,
                           [failed |-> FALSE, label |-> 0, selected |-> 0,
                            results |-> ctx.results.kspacing])
                ctx1 == [ctx EXCEPT !.results.kspacing = acc.results]
            IN IF acc.failed
               THEN /\ reports' = Append(reports, FloatStr(acc.label))
                    /\ exit_status' = INQ_CALCULATION_FAILED
                    /\ pc' = "finished"
                    /\ ctx' = ctx1
                    /\ UNCHANGED exception
               ELSE /\ ctx' = [ctx1 EXCEPT !.kspacing =
                                  [isdict |-> FALSE, items |-> <<>>,
                                   value |-> acc.selected]]
                    /\ pc' = AfterStep(awaitables, "wait_kspacing", "results")
                    /\ UNCHANGED <<reports, exit_status, exception>>
    /\ UNCHANGED <<energy_list, kspacing_list, trials, awaitables, outputs>>
    /\ history' = Ran("check_kspacing", pc')
    /\ UNCHANGED job

----------------------------------------------------------------------------
(* results *)

results ==
    /\ pc = "results"
    /\ LET suggested == [energy |-> ctx.energy_cutoff,
                         kspacing |-> ctx.kspacing.value]
       IN outputs' = Put(Put(outputs, "suggested", suggested),
                         "output_parameters", ctx.results)
    /\ pc' = "finished"
    /\ UNCHANGED <<energy_list, kspacing_list, ctx, trials, awaitables,
                   reports, exit_status, exception>>
    /\ history' = Ran("results", pc')
    /\ UNCHANGED job

----------------------------------------------------------------------------
(* The outline: setup, run_energy, check_energy, run_kspacing,             *)
(* check_kspacing, results                                                 *)

Next ==
    \/ setup
    \/ run_energy
    \/ check_energy
    \/ run_kspacing
    \/ check_kspacing
    \/ results
    \/ \E a \in awaitables : resolve_awaitable(a)

Spec == Init /\ [][Next]_vars

----------------------------------------------------------------------------
(* InqParser.parse (aiida_inq/parsers/inq.py)                              *)
(*                                                                         *)
(* A file is its text, a string with "\n" line ends.  The library calls    *)
(* are taken to do what their names say: self.node.get_option gives the    *)
(* option, self.exit_codes.<NAME> the exit code of that name, self.out     *)
(* emits.  A float is an integer number of thousandths of an eV.           *)

\* most lines of the text of the output file
MaxLines == 3

Sentinel == <<"A", "i", "i", "D", "A", " ", "D", "O", "N", "E">>

EnergyMarker == <<"E", "n", "e", "r", "g", "y", ":">>

ForcesMarker == <<"F", "o", "r", "c", "e", "s", ":">>

LineBlank == <<>>

LineEcho == <<"e", "c", "h", "o", " ">> \o Sentinel

LineEnergy == <<" ", " ">> \o EnergyMarker

LineTotal == <<" ", "t", "o", "t", "a", "l", " ", "=", " ", "-", "2", " ", "e", "V">>

LineForces == <<" ", " ">> \o ForcesMarker

LineForceRow == <<" ", "1", " ", "-", "1">>

\* lines the text of a retrieved file is made of
LineChoices ==
    {Sentinel, LineBlank, LineEcho, LineEnergy, LineTotal, LineForces,
     LineForceRow}

\* the text of the lines, each but the last ended by "\n", the last one too
\* if newline_at_end
FileText(file_lines, newline_at_end) ==
    Join(file_lines, "\n") \o (IF newline_at_end THEN <<"\n">> ELSE <<>>)

\* texts of the output file
OutputTexts ==
    {FileText(ls, nl) : ls \in SeqsUpTo(LineChoices, MaxLines), nl \in BOOLEAN}

\* texts of the other retrieved file
OtherTexts ==
    {<<>>, FileText(<<LineEnergy, LineTotal>>, TRUE),
     FileText(<<LineTotal, LineEnergy, LineTotal, LineBlank, LineForceRow,
                LineForces, LineForceRow>>, TRUE)}

\* calcinfo.retrieve_temporary_list of InqCalculation.prepare_for_submission
RetrieveTemporaryList == {"aiida.out", "aiida.err"}

\* values of the options output_filename and results_filename
OutputFilenames == {"aiida.out", "inq.out"}
ResultsFilenames == {"aiida.err", "inq.results"}

\* the retrieved temporary folder: the text of each file it holds
Folders ==
    {[n \in S |-> IF n = "aiida.out" THEN o ELSE e] :
        S \in SUBSET RetrieveTemporaryList, o \in OutputTexts, e \in OtherTexts}

\* [line.strip('\n') for line in fhandle.readlines()]
ReadLines(text) ==
    LET parts == SplitOn(text, "\n")
    IN IF parts[Len(parts)] = <<>> THEN SubSeq(parts, 1, Len(parts) - 1)
       ELSE parts

\* the attributes of ase.units the outputs use, in thousandths of an eV
UnitNames == {<<"e", "V">>, <<"H", "a">>}
UnitOf(name) == IF name = <<"e", "V">> THEN 1000 ELSE 27211

\* float(s) succeeds: an optional sign, then digits
IsFloat(s) ==
    LET digits == IF s # <<>> /\ s[1] = "-" THEN Tail(s) ELSE s
    IN /\ digits # <<>>
       /\ \A i \in 1..Len(digits) : \E d \in 1..10 : DigitChars[d] = digits[i]

\* float(s)
FloatOf(s) == IF s[1] = "-" THEN 0 - ParseInt(Tail(s)) ELSE ParseInt(s)

\* the blank line is not taken to end the section
StateAfterLineKept(line, state) == state

\* if line == '': state = None
StateAfterLine(line, state) == IF line = <<>> THEN "None" ELSE state

\* The loop over lines from line i on, with the section state and the
\* result_dict so far.  Gives the exception raised, if any, and result_dict.
RECURSIVE ParseLines(_, _, _, _)
ParseLines(lines, i, state, result_dict) ==
    IF i > Len(lines) THEN [exception |-> "", result_dict |-> result_dict]
    ELSE LET line == lines[i]
             raise(e) == [exception |-> e, result_dict |-> result_dict]
         IN IF InStr(EnergyMarker, line)
            THEN ParseLines(lines, i + 1, "energy",
                     Put(result_dict, "energy", [unit |-> "eV", terms |-> <<>>]))
            ELSE IF InStr(ForcesMarker, line)
            THEN ParseLines(lines, i + 1, "forces",
                     Put(result_dict, "forces", [values |-> <<>>]))
            ELSE LET state1 == StateAfterLine(line, state)
                     values == SplitWS(line)
                     n == Len(values)
                 IN IF state1 = "energy"
                    THEN IF n = 0 THEN raise("IndexError")
                         ELSE IF values[n] \notin UnitNames
                         THEN raise("AttributeError")
                         ELSE IF n < 2 THEN raise("IndexError")
                         ELSE IF ~IsFloat(values[n - 1]) THEN raise("ValueError")
                         ELSE ParseLines(lines, i + 1, state1,
                                  [result_dict EXCEPT !.energy.terms =
                                      DictSet(@, values[1],
                                          FloatOf(values[n - 1]) * UnitOf(values[n]))])
                    ELSE IF state1 = "forces"
                    THEN IF \E k \in 1..n : ~IsFloat(values[k])
                         THEN raise("ValueError")
                         ELSE ParseLines(lines, i + 1, state1,
                                  [result_dict EXCEPT !.forces.values =
                                      Append(@, [k \in 1..n |-> FloatOf(values[k])])])
                    ELSE ParseLines(lines, i + 1, state1, result_dict)

\* 'AiiDA DONE' in output_lines[-1]
InqDone(output_lines) == InStr(Sentinel, output_lines[Len(output_lines)])

\* parse has ended: with an exit code, or with an exception
Returned(j, code) == [j EXCEPT !.phase = "parsed", !.exit_code = code]
Raised(j, e) == [j EXCEPT !.phase = "parsed", !.exception = e]

parse ==
    /\ job.phase = "retrieved"
    /\ LET output_filename == job.output_filename
           files_retrieved == RetrieveTemporaryList
           results_filename == IF job.has_results THEN job.results_filename
                               ELSE ""
           files_expected == {output_filename} \cup
                             (IF job.has_results THEN {results_filename} ELSE {})
       IN job' =
           IF ~(files_expected \subseteq files_retrieved)
           THEN Returned(job, "ERROR_MISSING_OUTPUT_FILES")
           ELSE IF results_filename # "" /\ results_filename \notin DOMAIN job.folder
           THEN Raised(job, "FileNotFoundError")
           ELSE IF output_filename \notin DOMAIN job.folder
           THEN Raised(job, "FileNotFoundError")
           ELSE LET output_lines == ReadLines(job.folder[output_filename])
                    lines == IF results_filename # ""
                             THEN ReadLines(job.folder[results_filename])
                             ELSE output_lines
                IN IF output_lines = <<>> THEN Raised(job, "IndexError")
                   ELSE IF ~InqDone(output_lines)
                   THEN Returned(job, "ERROR_OUTPUT_STDOUT_INCOMPLETE")
                   ELSE LET parsed == ParseLines(lines, 1, "None", EmptyMap)
                        IN IF parsed.exception # ""
                           THEN Raised(job, parsed.exception)
                           ELSE Returned(
                                    [job EXCEPT !.outputs = Put(@,
                                        "output_parameters", parsed.result_dict)],
                                    "0")
    /\ UNCHANGED <<energy_list, kspacing_list, pc, ctx, trials, awaitables,
                   reports, exit_status, exception, outputs, history>>

\* a calculation whose files have been retrieved, about to be parsed
ParserInit ==
    /\ energy_list = <<>>
    /\ kspacing_list = <<>>
    /\ pc = "setup"
    /\ ctx = EmptyMap
    /\ trials = <<>>
    /\ awaitables = {}
    /\ reports = <<>>
    /\ exit_status = 0
    /\ exception = ""
    /\ outputs = EmptyMap
    /\ history = <<>>
    /\ \E h \in BOOLEAN, o \in OutputFilenames, r \in ResultsFilenames,
          f \in Folders :
          job = [phase |-> "retrieved", has_results |-> h,
                 output_filename |-> o, results_filename |-> r, folder |-> f,
                 exit_code |-> "", exception |-> "", outputs |-> EmptyMap]

ParserNext == parse

ParserSpec == ParserInit /\ [][ParserNext]_vars

----------------------------------------------------------------------------
(* InqCalculation.prepare_for_submission (aiida_inq/calculations/inq.py)   *)
(*                                                                         *)
(* The parameters are an insertion-ordered dict of sections, held as a     *)
(* sequence of items; the value of a section is a dict of parameters or a  *)
(* plain value.  A line of the input script is the sequence of its words,  *)
(* the numbers of the cell and of the positions left out.                  *)

\* most sections the parameters hold
MaxSections == 3

NO_RUN_TYPE_SPECIFIED == 202

INCORRECT_INPUT_PARAMETER == 201

\* a section value that is a dict, and one that is not
DictValue(items) == [isdict |-> TRUE, items |-> items, value |-> ""]
PlainValue(v) == [isdict |-> FALSE, items |-> <<>>, value |-> v]

\* the sections the parameters are made of; '35.0 XX' has no unit of energy
SectionChoices ==
    {[key |-> "electrons",
      val |-> DictValue(<<[key |-> "cutoff", val |-> "35.0 Ha"]>>)],
     [key |-> "electrons",
      val |-> DictValue(<<[key |-> "cutoff", val |-> "35.0 XX"],
                          [key |-> "extra-states", val |-> "3"]>>)],
     [key |-> "kpoints",
      val |-> DictValue(<<[key |-> "gamma", val |-> ""]>>)],
     [key |-> "theory", val |-> PlainValue("pbe")],
     [key |-> "run",
      val |-> DictValue(<<[key |-> "ground-state", val |-> ""]>>)],
     [key |-> "run", val |-> DictValue(<<>>)]}

\* the parameters: sections with pairwise distinct names
ParameterChoices ==
    {ps \in SeqsUpTo(SectionChoices, MaxSections) :
        \A i, j \in 1..Len(ps) : i # j => ps[i].key # ps[j].key}

\* the symbols of the atoms of the structure
AtomsChoices == {<<"Si">>, <<"Si", "Si">>}

\* the lines written before the cell: the shell settings and 'inq clear'
ScriptHeader ==
    << <<"#!/bin/bash">>, <<>>, <<"set", "-e">>, <<"set", "-x">>, <<>>,
       <<"inq", "clear">> >>

CellLine == <<"inq", "cell", "scale", "angstrom">>

IonLines(atoms) ==
    [i \in 1..Len(atoms) |-> <<"inq", "ions", "insert", "fractional", atoms[i]>>]

\* the lines of `for k, v in val.items()` for the section key
SectionLines(key, items) ==
    [i \in 1..Len(items) |-> <<"inq", key, items[i].key, items[i].val>>]

RunLine(run_type) == <<"inq", "run", run_type>>

EchoLine == <<"echo", "AiiDA DONE">>

\* The loop over parameters.items() from section i on: the lines written
\* and the exception raised, if any.
RECURSIVE WriteParameters(_, _, _)
WriteParameters(parameters, i, written) ==
    IF i > Len(parameters) THEN [exception |-> "", written |-> written]
    ELSE IF ~parameters[i].val.isdict
    THEN [exception |-> "AttributeError", written |-> written]
    ELSE WriteParameters(parameters, i + 1,
             written \o SectionLines(parameters[i].key, parameters[i].val.items))

\* the run line is written before the parameter lines
WriteRunAndEchoRunFirst(head, parameter_lines, run_type) ==
    head \o <<RunLine(run_type)>> \o parameter_lines \o << <<>>, EchoLine >>

\* the script once the run line and the echo have been written after the
\* parameter lines
WriteRunAndEcho(head, parameter_lines, run_type) ==
    head \o parameter_lines \o << RunLine(run_type), <<>>, EchoLine >>

\* prepare_for_submission has ended: with the CalcInfo, or with an exception
Prepared(j, script) ==
    [j EXCEPT !.phase = "prepared", !.script = script, !.calcinfo = TRUE]
NotPrepared(j, script, e) ==
    [j EXCEPT !.phase = "excepted", !.script = script, !.exception = e]

\* self.verify_inputs() is commented out: nothing looks at the values.
prepare_for_submission ==
    /\ job.phase = "created"
    /\ LET parameters == job.parameters
           head == ScriptHeader \o <<CellLine>> \o IonLines(job.atoms)
           runs == SelectSeq(parameters, LAMBDA p : p.key = "run")
           popped == SelectSeq(parameters, LAMBDA p : p.key # "run")
       IN job' =
           IF runs = <<>> \/ ~runs[1].val.isdict
           THEN \* run_type.keys() of None, or of a plain value
                NotPrepared(job, head, "AttributeError")
           ELSE IF runs[1].val.items = <<>>
           THEN NotPrepared(job, head, "IndexError")
           ELSE LET run_type == runs[1].val.items[1].key
                    \* run_type is a key of a dict: it is never None, and
                    \* the branch that names NO_RUN_TYPE_SPECIFIED is dead
                    lines == WriteParameters(popped, 1, <<>>)
                IN IF lines.exception # ""
                   THEN NotPrepared(job, head \o lines.written, lines.exception)
                   ELSE Prepared(job,
                            WriteRunAndEcho(head, lines.written, run_type))
    /\ UNCHANGED <<energy_list, kspacing_list, pc, ctx, trials, awaitables,
                   reports, exit_status, exception, outputs, history>>

\* a calculation about to be prepared for submission
CalcInit ==
    /\ energy_list = <<>>
    /\ kspacing_list = <<>>
    /\ pc = "setup"
    /\ ctx = EmptyMap
    /\ trials = <<>>
    /\ awaitables = {}
    /\ reports = <<>>
    /\ exit_status = 0
    /\ exception = ""
    /\ outputs = EmptyMap
    /\ history = <<>>
    /\ \E ps \in ParameterChoices, atoms \in AtomsChoices :
          job = [phase |-> "created", parameters |-> ps, atoms |-> atoms,
                 script |-> <<>>, exit_code |-> 0, exception |-> "",
                 calcinfo |-> FALSE]

CalcNext == prepare_for_submission

CalcSpec == CalcInit /\ [][CalcNext]_vars

----------------------------------------------------------------------------
(* Vocabulary of the properties *)

Stage(s) == {pk \in 1..Len(trials) : trials[pk].stage = s}

Terminal(pk) == trials[pk].status \in {"finished_ok", "failed"}

Succeeded(s) == {pk \in Stage(s) : trials[pk].status = "finished_ok"}

Failed(s) == {pk \in Stage(s) : trials[pk].status = "failed"}

LabelOf(pk) == trials[pk].inputs.metadata.label

CutoffOf(pk) == trials[pk].inputs.inq.parameters.electrons.cutoff

\* the kspacing_list value a stage-2 trial was submitted for
SpacingOf(pk) == CHOOSE k \in KspacingChoices : KspacingLabel(k) = LabelOf(pk)

MinEnergyTrials(s) ==
    {pk \in Succeeded(s) :
        \A q \in Succeeded(s) : trials[pk].energy <= trials[q].energy}

Stage1Selected == "energy_cutoff" \in DOMAIN ctx

Stage2Selected == "kspacing" \in DOMAIN ctx /\ ~ctx.kspacing.isdict

Meshes == {KpointsMesh(kspacing_list[i]) : i \in 1..Len(kspacing_list)}

SweepFailed == pc = "finished" /\ exit_status = INQ_CALCULATION_FAILED


\* the lines InqParser.parse reads from the output file
OutputLines == ReadLines(job.folder[job.output_filename])

\* parse has run and got as far as looking at the last line of the output
SentinelChecked ==
    /\ job.phase = "parsed"
    /\ job.exit_code # "ERROR_MISSING_OUTPUT_FILES"
    /\ job.output_filename \in DOMAIN job.folder
    /\ job.has_results => job.results_filename \in DOMAIN job.folder
    /\ OutputLines # <<>>

FinalLine == OutputLines[Len(OutputLines)]


InHistory(step) == \E i \in 1..Len(history) : history[i] = step

\* the context key a trial was submitted under
KeyOf(pk) ==
    IF trials[pk].stage = 1 THEN EnergyKey(CutoffOf(pk).str)
    ELSE KspacingKey(SpacingOf(pk))

\* ctx.<stage> as it is when the trials from pk on are resolved in the order
\* they were submitted in, after those before pk gave items
RECURSIVE InSweepOrder(_, _, _)
InSweepOrder(s, pk, items) ==
    IF pk > Len(trials) THEN items
    ELSE InSweepOrder(s, pk + 1,
             IF trials[pk].stage = s THEN DictSet(items, KeyOf(pk), pk)
             ELSE items)

\* what check_energy and check_kspacing make of the trials resolved in the
\* order they were submitted in
SweepOrderEnergy ==
    CheckEnergyLoop(InSweepOrder(1, 1, <<>>), 1,
        [failed |-> FALSE, label |-> <<>>, selected |-> PyInt(0),
         results |-> <<>>])

SweepOrderKspacing ==
    CheckKspacingLoop(InSweepOrder(2, 1, <<>>), 1,
        [failed |-> FALSE, label |-> 0, selected |-> 0, results |-> <<>>])

EnergyChecked == InHistory("check_energy") /\ "energy" \in DOMAIN ctx

KspacingChecked == InHistory("check_kspacing") /\ "kspacing" \in DOMAIN ctx


\* the trial of S that comes first in sweep order
FirstOf(S) == CHOOSE pk \in S : \A q \in S : pk <= q


\* the mesh a stage-2 trial was given, read back from its kpoints grid
GridOf(pk) ==
    LET counts == SplitOn(trials[pk].inputs.inq.parameters.kpoints.grid, " ")
    IN [i \in 1..Len(counts) |-> ParseInt(counts[i])]


\* the files InqParser.parse expects for the calculation
FilesExpected ==
    {job.output_filename} \cup
    (IF job.has_results THEN {job.results_filename} ELSE {})

\* the output file has a last line and the sentinel is in it
SentinelPresent ==
    /\ job.output_filename \in DOMAIN job.folder
    /\ OutputLines # <<>>
    /\ InStr(Sentinel, FinalLine)


\* the lines the loop of InqParser.parse goes through
ParsedLines ==
    IF job.has_results THEN ReadLines(job.folder[job.results_filename])
    ELSE OutputLines

IsMarker(line) == InStr(EnergyMarker, line) \/ InStr(ForcesMarker, line)

SectionOf(line) == IF InStr(EnergyMarker, line) THEN "energy" ELSE "forces"

\* the section line i of lines is read in: that of the last marker before
\* it, unless a blank line came since or line i is a marker or blank itself
OpenAt(lines, i) ==
    LET turns == {j \in 1..(i - 1) : IsMarker(lines[j]) \/ lines[j] = <<>>}
        last == CHOOSE j \in turns : \A k \in turns : k <= j
    IN IF IsMarker(lines[i]) \/ lines[i] = <<>> \/ turns = {} THEN "None"
       ELSE IF lines[last] = <<>> THEN "None"
       ELSE SectionOf(lines[last])

\* line i is read in section sec, and the section is not opened anew later
Contributes(lines, i, sec) ==
    /\ OpenAt(lines, i) = sec
    /\ \A j \in (i + 1)..Len(lines) :
           IsMarker(lines[j]) => SectionOf(lines[j]) # sec


\* prepare_for_submission has run to its end, one way or the other
PrepareEnded == job.phase \in {"prepared", "excepted"}

HasRunSection == \E i \in 1..Len(job.parameters) : job.parameters[i].key = "run"


\* some parameter of some section has a value with a wrong unit
HasMalformedParameter ==
    \E i \in 1..Len(job.parameters) :
        \E k \in 1..Len(job.parameters[i].val.items) :
            job.parameters[i].val.items[k].val = "35.0 XX"


\* the values of kspacing_list
SpacingValues == {kspacing_list[i] : i \in 1..Len(kspacing_list)}

\* the key written by run_kspacing decodes at check_kspacing to the spacing
\* it was written for, and the keys of the kspacing result table are values
\* of kspacing_list
KeysRoundTrip ==
    /\ \A k \in SpacingValues : KspacingOfKey(KspacingKey(k)) = k
    /\ ("kspacing" \in DOMAIN ctx /\ ctx.kspacing.isdict) =>
           \A i \in 1..Len(ctx.kspacing.items) :
               KspacingOfKey(ctx.kspacing.items[i].key) \in SpacingValues
    /\ "results" \in DOMAIN ctx =>
           \A i \in 1..Len(ctx.results.kspacing) :
               ctx.results.kspacing[i].key \in SpacingValues

----------------------------------------------------------------------------
(* Properties *)

\* C1: for every non-empty set of succeeded trials of a stage, the value the
\* stage selects is the parameter value of a trial whose total energy is the
\* minimum over the whole set.
CounterC1 ==
    /\ (Stage1Selected /\ Succeeded(1) # {}) =>
           \E pk \in MinEnergyTrials(1) : ctx.energy_cutoff = CutoffOf(pk)
    /\ (Stage2Selected /\ Succeeded(2) # {}) =>
           \E pk \in MinEnergyTrials(2) : ctx.kspacing.value = SpacingOf(pk)

\* C2: in run_kspacing, if two distinct spacings of kspacing_list derive to
\* the same k-point mesh, exactly one trial is submitted for that mesh: the
\* one of the first spacing in sweep order that yields the mesh.
CounterC2 ==
    Stage(2) # {} =>
        \A i, j \in 1..Len(kspacing_list) :
            (/\ i < j
             /\ kspacing_list[i] # kspacing_list[j]
             /\ KpointsMesh(kspacing_list[i]) = KpointsMesh(kspacing_list[j])) =>
                /\ Cardinality({pk \in Stage(2) :
                        trials[pk].inputs.inq.parameters.kpoints.grid =
                            MeshStr(KpointsMesh(kspacing_list[j]))}) = 1
                /\ \A pk \in Stage(2) : SpacingOf(pk) # kspacing_list[j]

\* C3: if a stage-1 trial ended not finished-ok, no stage-2 trial is ever
\* submitted, and once check_energy has run the sweep has ended with
\* INQ_CALCULATION_FAILED and a report citing the label of a failed trial.
CounterC3 ==
    Failed(1) # {} =>
        /\ Stage(2) = {}
        /\ pc \notin {"run_kspacing", "wait_kspacing", "check_kspacing", "results"}
        /\ pc \notin {"wait_energy", "check_energy"} =>
               /\ SweepFailed
               /\ Len(reports) = 1
               /\ \E pk \in Failed(1) : EnergyKey(CutoffOf(pk).str) = reports[1]

\* C4: every trial submitted in stage 2 carries the energy cutoff selected by
\* stage 1, i.e. ctx.energy_cutoff as set by check_energy.
TheoremC4 ==
    \A pk \in Stage(2) : Stage1Selected /\ CutoffOf(pk) = ctx.energy_cutoff

WitnessC4 ==
    /\ Stage(2) # {}
    /\ Stage1Selected
    /\ ctx.energy_cutoff.isstr
    /\ \E pk \in Stage(1) : CutoffOf(pk) # ctx.energy_cutoff

\* C5: whenever a stage-2 trial exists (submitted or running), every stage-1
\* trial is terminal and the stage-1 selection has been computed.
TheoremC5 ==
    Stage(2) # {} =>
        /\ Stage1Selected
        /\ \A pk \in Stage(1) : Terminal(pk)

WitnessC5 ==
    /\ Cardinality(Stage(1)) >= 2
    /\ \E pk \in Stage(2) : ~Terminal(pk)

\* C6: a check step, and any declaration of failure, runs only when no
\* awaitable is outstanding and every trial submitted in its stage is
\* terminal; and once the outcome of a trial of a stage has been observed no
\* further trial of that stage is submitted.
BarrierC6 ==
    /\ pc = "check_energy" => awaitables = {} /\ \A pk \in Stage(1) : Terminal(pk)
    /\ pc = "check_kspacing" => awaitables = {} /\ \A pk \in Stage(2) : Terminal(pk)
    /\ SweepFailed => \A pk \in 1..Len(trials) : Terminal(pk)

FanOutC6 ==
    \A s \in {1, 2} :
        (\E pk \in Stage(s) : Terminal(pk)) => Stage(s)' = Stage(s)

TheoremC6 == []BarrierC6 /\ [][FanOutC6]_vars

WitnessC6 ==
    /\ pc = "check_kspacing"
    /\ Cardinality(Stage(2)) >= 2
    /\ Failed(2) # {}

\* C7: if any trial of either stage is failed, neither 'suggested' nor
\* 'output_parameters' is ever emitted, and a sweep that has run to its end
\* has ended with INQ_CALCULATION_FAILED.
CounterC7 ==
    (Failed(1) \cup Failed(2)) # {} =>
        /\ DOMAIN outputs = {}
        /\ pc = "finished" => exit_status = INQ_CALCULATION_FAILED

\* C8: when a stage has no trials, the sweep ends with a no-candidates error
\* that it declares itself, instead of selecting a value and going on.
CounterC8 ==
    /\ (energy_list = <<>> /\ pc \notin {"setup", "run_energy", "check_energy"}) =>
           pc = "finished" /\ exit_status # 0
    /\ (kspacing_list = <<>> /\ Stage1Selected /\
        pc \notin {"run_kspacing", "check_kspacing"}) =>
           pc = "finished" /\ exit_status # 0

\* C9: the labels of the trials submitted within one stage are pairwise
\* distinct.
CounterC9 ==
    \A s \in {1, 2} : \A p, q \in Stage(s) : p # q => LabelOf(p) # LabelOf(q)

\* C10: when every trial of both stages succeeded and the sweep has ended,
\* 'suggested' holds the two selections and the result table holds exactly
\* one entry per submitted trial of each stage, equal to the total energy
\* that trial reported.
CounterC10 ==
    (/\ pc = "finished"
     /\ Stage(1) # {} /\ Stage(2) # {}
     /\ \A pk \in 1..Len(trials) : trials[pk].status = "finished_ok") =>
        /\ DOMAIN outputs = {"suggested", "output_parameters"}
        /\ outputs.suggested = [energy |-> ctx.energy_cutoff,
                                kspacing |-> ctx.kspacing.value]
        /\ Len(outputs.output_parameters.energy) = Cardinality(Stage(1))
        /\ Len(outputs.output_parameters.kspacing) = Cardinality(Stage(2))
        /\ \A pk \in Stage(1) :
               \E i \in 1..Len(outputs.output_parameters.energy) :
                   outputs.output_parameters.energy[i] =
                       [key |-> EnergyKey(CutoffOf(pk).str), val |-> trials[pk].energy]
        /\ \A pk \in Stage(2) :
               \E i \in 1..Len(outputs.output_parameters.kspacing) :
                   outputs.output_parameters.kspacing[i] =
                       [key |-> SpacingOf(pk), val |-> trials[pk].energy]

\* C11: InqParser.parse takes the output for complete if and only if the
\* last line of the output file is exactly 'AiiDA DONE'; for every other
\* last line it returns ERROR_OUTPUT_STDOUT_INCOMPLETE.
CounterC11 ==
    SentinelChecked =>
        (job.exit_code = "ERROR_OUTPUT_STDOUT_INCOMPLETE" <=> FinalLine # Sentinel)

\* C12: once every submitted trial has reached a terminal status the sweep
\* ends in exactly one of two ways: it has emitted 'suggested', or it has
\* ended with INQ_CALCULATION_FAILED.
CounterC12 ==
    pc \in {"finished", "excepted"} =>
        ("suggested" \in DOMAIN outputs) # (exit_status = INQ_CALCULATION_FAILED)

\* C13: the outcome of a stage (the value selected, the result table, the
\* label cited on failure) is the same for every order in which the trials
\* of the stage complete: it is the outcome of the run in which they
\* complete in the order they were submitted in.
CounterC13 ==
    /\ EnergyChecked =>
           /\ ctx.results.energy = SweepOrderEnergy.results
           /\ IF SweepOrderEnergy.failed
              THEN SweepFailed /\ reports = <<SweepOrderEnergy.label>>
              ELSE Stage1Selected /\ ctx.energy_cutoff = SweepOrderEnergy.selected
    /\ KspacingChecked =>
           /\ ctx.results.kspacing = SweepOrderKspacing.results
           /\ IF SweepOrderKspacing.failed
              THEN SweepFailed /\ reports = <<FloatStr(SweepOrderKspacing.label)>>
              ELSE Stage2Selected /\ ctx.kspacing.value = SweepOrderKspacing.selected

\* C14: when several trials of a stage share the minimum total energy, the
\* stage selects the parameter value of the one that comes first in sweep
\* order.  Stated for the stages whose trials have pairwise distinct labels
\* and whose minimum is negative, where neither a shared context key nor
\* the initial value of the selection plays a part.
TieC14(s) ==
    /\ Cardinality(MinEnergyTrials(s)) >= 2
    /\ \A pk \in MinEnergyTrials(s) : trials[pk].energy < 0
    /\ \A p, q \in Stage(s) : p # q => LabelOf(p) # LabelOf(q)

CounterC14 ==
    /\ (Stage1Selected /\ TieC14(1)) =>
           ctx.energy_cutoff = CutoffOf(FirstOf(MinEnergyTrials(1)))
    /\ (Stage2Selected /\ TieC14(2)) =>
           ctx.kspacing.value = SpacingOf(FirstOf(MinEnergyTrials(2)))

\* C15: the selection loop of check_energy and check_kspacing keeps a running
\* threshold that starts at zero, replaces the selected value only at a
\* trial whose energy is below the threshold, and lowers the threshold to
\* that energy when it does.  The selection is then what this loop gives on
\* the trials in the order the check went through them.
RECURSIVE RunningThresholdC15(_, _, _, _)
RunningThresholdC15(seen, i, threshold, selected) ==
    IF i > Len(seen) THEN selected
    ELSE IF seen[i].energy < threshold
         THEN RunningThresholdC15(seen, i + 1, seen[i].energy, seen[i].value)
         ELSE RunningThresholdC15(seen, i + 1, threshold, selected)

SeenByCheckEnergyC15 ==
    [i \in 1..Len(ctx.energy) |->
        [energy |-> trials[ctx.energy[i].val].energy,
         value |-> CutoffOf(ctx.energy[i].val)]]

SeenByCheckKspacingC15 ==
    [i \in 1..Len(ctx.results.kspacing) |->
        [energy |-> ctx.results.kspacing[i].val,
         value |-> ctx.results.kspacing[i].key]]

CounterC15 ==
    /\ Stage1Selected =>
           ctx.energy_cutoff =
               RunningThresholdC15(SeenByCheckEnergyC15, 1, 0, PyInt(0))
    /\ Stage2Selected =>
           ctx.kspacing.value =
               RunningThresholdC15(SeenByCheckKspacingC15, 1, 0, 0)

\* C16: the parameters of every stage-1 trial are the baseline parameters
\* with the energy cutoff replaced by the swept value and nothing else
\* changed, the other keys of 'electrons' included.
CounterC16 ==
    \A pk \in Stage(1) :
        \E i \in 1..Len(energy_list) :
            trials[pk].inputs.inq.parameters =
                [BaselineParameters EXCEPT
                    !.electrons.cutoff = PyStr(energy_list[i])]

\* C17: the work chain is suspended at two points only.  A run that reaches
\* the final results was suspended once after run_energy and once after
\* run_kspacing, and no run is suspended after setup, a check step or
\* results.
FullRunC17 ==
    <<"setup", "run_energy", "wait", "check_energy", "run_kspacing", "wait",
      "check_kspacing", "results">>

TheoremC17 ==
    /\ \A i \in 1..Len(history) :
           history[i] = "wait" =>
               i > 1 /\ history[i - 1] \in {"run_energy", "run_kspacing"}
    /\ pc \in WaitStates => history # <<>> /\ history[Len(history)] = "wait"
    /\ \A i \in 1..Len(history) :
           (\/ history[i] = "run_energy" /\ Stage(1) # {}
            \/ history[i] = "run_kspacing" /\ Stage(2) # {}) =>
               i < Len(history) /\ history[i + 1] = "wait"
    /\ InHistory("results") => history = FullRunC17

WitnessC17 ==
    /\ "suggested" \in DOMAIN outputs
    /\ Cardinality(Stage(1)) >= 2
    /\ history = FullRunC17

\* C18: the work chain never retries.  Every entry of energy_list leads to
\* at most one stage-1 submission and every entry of kspacing_list to at
\* most one stage-2 submission, no step of the outline runs more than once,
\* and no trial is submitted once a failure of a trial has been reported.
OncePerEntryC18 ==
    /\ \A e \in EnergyChoices :
           Cardinality({pk \in Stage(1) : CutoffOf(pk) = PyStr(e)}) <=
               Cardinality({i \in 1..Len(energy_list) : energy_list[i] = e})
    /\ \A k \in KspacingChoices :
           Cardinality({pk \in Stage(2) : SpacingOf(pk) = k}) <=
               Cardinality({i \in 1..Len(kspacing_list) : kspacing_list[i] = k})

OncePerStepC18 ==
    \A i, j \in 1..Len(history) :
        (i # j /\ history[i] = history[j]) => history[i] = "wait"

NoneAfterFailureC18 == reports # <<>> => Len(trials') = Len(trials)

TheoremC18 ==
    [](OncePerEntryC18 /\ OncePerStepC18) /\ [][NoneAfterFailureC18]_vars

WitnessC18 ==
    /\ SweepFailed
    /\ reports # <<>>
    /\ Failed(2) # {}
    /\ Len(kspacing_list) >= 2
    /\ Cardinality(Stage(2)) = Len(kspacing_list)

\* C19: once the selection of a stage has been computed and recorded, the
\* context no longer holds the handles of that stage's trials: none of
\* stage 1 during stage 2 or at results, none of stage 2 at results.
CounterC19 ==
    /\ Stage1Selected => ("energy" \notin DOMAIN ctx \/ ctx.energy = <<>>)
    /\ Stage2Selected => ctx.kspacing.items = <<>>

\* C20: for the lattice of the structure the mesh derived from a spacing is
\* monotone: of two trials, the one with the smaller spacing has in every
\* component a count at least that of the other; and every count is a
\* positive integer.
TheoremC20 ==
    \A p, q \in Stage(2) :
        /\ Len(GridOf(p)) = Len(ReciprocalCell)
        /\ MeshStr(GridOf(p)) = trials[p].inputs.inq.parameters.kpoints.grid
        /\ \A i \in 1..Len(GridOf(p)) : GridOf(p)[i] >= 1
        /\ SpacingOf(p) < SpacingOf(q) =>
               \A i \in 1..Len(GridOf(p)) : GridOf(p)[i] >= GridOf(q)[i]

WitnessC20 ==
    \E p, q \in Stage(2) :
        /\ SpacingOf(p) < SpacingOf(q)
        /\ \A i \in 1..Len(ReciprocalCell) : GridOf(p)[i] > GridOf(q)[i]
        /\ GridOf(q) = KpointsMesh(SpacingOf(q))

\* C21: InqParser.parse emits 'output_parameters' only when every expected
\* file is in the retrieved list and the sentinel is present; otherwise it
\* returns ERROR_MISSING_OUTPUT_FILES, which is checked first, or
\* ERROR_OUTPUT_STDOUT_INCOMPLETE, and emits nothing.
CounterC21 ==
    job.phase = "parsed" =>
        /\ "output_parameters" \in DOMAIN job.outputs =>
               FilesExpected \subseteq RetrieveTemporaryList /\ SentinelPresent
        /\ ~(FilesExpected \subseteq RetrieveTemporaryList) =>
               /\ job.exit_code = "ERROR_MISSING_OUTPUT_FILES"
               /\ DOMAIN job.outputs = {}
        /\ (FilesExpected \subseteq RetrieveTemporaryList /\ ~SentinelPresent) =>
               /\ job.exit_code = "ERROR_OUTPUT_STDOUT_INCOMPLETE"
               /\ DOMAIN job.outputs = {}

\* C22: InqParser.parse is a line-driven state machine.  A line with
\* 'Energy:' or 'Forces:' opens that section, a blank line closes the
\* section, and only the lines read in an open section contribute to the
\* result: the lines before the first marker and those between a blank line
\* and the next marker add nothing to it, and raise nothing.
RECURSIVE EnergyTermsC22(_, _, _)
EnergyTermsC22(lines, i, terms) ==
    IF i > Len(lines) THEN terms
    ELSE EnergyTermsC22(lines, i + 1,
             IF Contributes(lines, i, "energy")
             THEN LET values == SplitWS(lines[i])
                  IN DictSet(terms, values[1],
                         FloatOf(values[Len(values) - 1]) *
                             UnitOf(values[Len(values)]))
             ELSE terms)

RECURSIVE ForcesValuesC22(_, _, _)
ForcesValuesC22(lines, i, rows) ==
    IF i > Len(lines) THEN rows
    ELSE ForcesValuesC22(lines, i + 1,
             IF Contributes(lines, i, "forces")
             THEN LET values == SplitWS(lines[i])
                  IN Append(rows, [k \in 1..Len(values) |-> FloatOf(values[k])])
             ELSE rows)

TheoremC22 ==
    /\ (job.phase = "parsed" /\ job.exit_code = "0") =>
           LET result_dict == job.outputs.output_parameters
               opened(sec) == \E i \in 1..Len(ParsedLines) :
                                 /\ IsMarker(ParsedLines[i])
                                 /\ SectionOf(ParsedLines[i]) = sec
           IN /\ \A sec \in {"energy", "forces"} :
                     sec \in DOMAIN result_dict <=> opened(sec)
              /\ opened("energy") =>
                     result_dict.energy.terms = EnergyTermsC22(ParsedLines, 1, <<>>)
              /\ opened("forces") =>
                     result_dict.forces.values = ForcesValuesC22(ParsedLines, 1, <<>>)
    /\ (job.phase = "parsed" /\ job.exception # "" /\ SentinelPresent) =>
           \/ job.has_results /\ job.results_filename \notin DOMAIN job.folder
           \/ \E i \in 1..Len(ParsedLines) : OpenAt(ParsedLines, i) # "None"

WitnessC22 ==
    /\ job.phase = "parsed"
    /\ job.exit_code = "0"
    /\ DOMAIN job.outputs.output_parameters = {"energy", "forces"}
    /\ Len(job.outputs.output_parameters.energy.terms) = 1
    /\ Len(job.outputs.output_parameters.forces.values) = 1
    /\ \E i, j \in 1..Len(ParsedLines) :
           /\ i < j
           /\ ~IsMarker(ParsedLines[i]) /\ ParsedLines[i] # <<>>
           /\ IsMarker(ParsedLines[j])
           /\ \A k \in 1..i : ~IsMarker(ParsedLines[k])
    /\ \E i \in 2..Len(ParsedLines) :
           /\ ParsedLines[i - 1] = <<>>
           /\ ~IsMarker(ParsedLines[i]) /\ ParsedLines[i] # <<>>

\* C23: when the parameters hold no 'run' section, prepare_for_submission
\* gives its caller the exit code 202 NO_RUN_TYPE_SPECIFIED and no
\* calculation to launch.
CounterC23 ==
    (PrepareEnded /\ ~HasRunSection) =>
        /\ job.exit_code = NO_RUN_TYPE_SPECIFIED
        /\ job.exception = ""
        /\ ~job.calcinfo

\* C24: a malformed parameter is found before any submission: the
\* calculation ends with INCORRECT_INPUT_PARAMETER, no input script is
\* written and no job is launched.  Stated for the calculations whose
\* preparation raises no exception for another reason.
CounterC24 ==
    (PrepareEnded /\ HasMalformedParameter /\ job.exception = "") =>
        /\ job.exit_code = INCORRECT_INPUT_PARAMETER
        /\ job.script = <<>>
        /\ ~job.calcinfo

\* C25: the input script written by prepare_for_submission has a fixed
\* order.  Of its command lines 'inq clear' is the first, then comes the
\* cell line, then one 'ions insert' line per atom, then one line
\* 'inq <section> <key> <value>' per parameter of every section but 'run',
\* then exactly one line 'inq run <type>', and the echo of 'AiiDA DONE' is
\* the last line of the script; no parameter line follows the run line.
CommandsC25 ==
    SelectSeq(job.script, LAMBDA line : line # <<>> /\ line[1] \in {"inq", "echo"})

\* the parameters of the sections other than 'run': <<section, parameter>>
ParametersC25 ==
    UNION {{<<i, k>> : k \in 1..Len(job.parameters[i].val.items)} :
              i \in {j \in 1..Len(job.parameters) : job.parameters[j].key # "run"}}

TheoremC25 ==
    job.phase = "prepared" =>
        LET cmds == CommandsC25
            n == Len(job.atoms)
            m == Cardinality(ParametersC25)
            line_of(ik) ==
                <<"inq", job.parameters[ik[1]].key,
                  job.parameters[ik[1]].val.items[ik[2]].key,
                  job.parameters[ik[1]].val.items[ik[2]].val>>
        IN /\ Len(cmds) = n + m + 4
           /\ cmds[1] = <<"inq", "clear">>
           /\ SubSeq(cmds[2], 1, 2) = <<"inq", "cell">>
           /\ \A i \in 1..n :
                  cmds[2 + i] = <<"inq", "ions", "insert", "fractional", job.atoms[i]>>
           /\ \A i \in 1..m : \E ik \in ParametersC25 : cmds[2 + n + i] = line_of(ik)
           /\ \A ik \in ParametersC25 : \E i \in 1..m : cmds[2 + n + i] = line_of(ik)
           /\ \E i \in 1..Len(job.parameters) :
                  /\ job.parameters[i].key = "run"
                  /\ cmds[n + m + 3] =
                         <<"inq", "run", job.parameters[i].val.items[1].key>>
           /\ Cardinality({i \in 1..Len(cmds) :
                              SubSeq(cmds[i], 1, 2) = <<"inq", "run">>}) = 1
           /\ cmds[n + m + 4] = <<"echo", "AiiDA DONE">>
           /\ job.script[Len(job.script)] = <<"echo", "AiiDA DONE">>

WitnessC25 ==
    /\ job.phase = "prepared"
    /\ Len(job.atoms) = 2
    /\ Cardinality(ParametersC25) = 3
    /\ Len(job.parameters) = 3
    /\ job.parameters[1].key = "run"

\* C26: the value a stage selects is the parameter value of one of the
\* trials of the stage or the placeholder 0, and it is 0 exactly when no
\* trial of the stage has a negative total energy; the sweep goes on with
\* it: stage 2 runs with that cutoff and 'suggested' reports the values.
CounterC26 ==
    /\ Stage1Selected =>
           /\ \/ ctx.energy_cutoff = PyInt(0)
              \/ \E pk \in Stage(1) : ctx.energy_cutoff = CutoffOf(pk)
           /\ ctx.energy_cutoff = PyInt(0) <=>
                  \A pk \in Stage(1) : trials[pk].energy >= 0
           /\ \A pk \in Stage(2) : CutoffOf(pk) = ctx.energy_cutoff
    /\ Stage2Selected =>
           /\ \/ ctx.kspacing.value = 0
              \/ \E pk \in Stage(2) : ctx.kspacing.value = SpacingOf(pk)
           /\ ctx.kspacing.value = 0 <=>
                  \A pk \in Stage(2) : trials[pk].energy >= 0
    /\ "suggested" \in DOMAIN outputs =>
           outputs.suggested = [energy |-> ctx.energy_cutoff,
                                kspacing |-> ctx.kspacing.value]

\* C27: every trial submitted in a stage is tracked until the join and
\* inspected by the check step of the stage: the handles the context holds
\* for the stage are as many as the submissions made, and a failed trial
\* does not go unnoticed by the check.
CounterC27 ==
    /\ "energy" \in DOMAIN ctx => Len(ctx.energy) = Cardinality(Stage(1))
    /\ ("kspacing" \in DOMAIN ctx /\ ctx.kspacing.isdict) =>
           Len(ctx.kspacing.items) = Cardinality(Stage(2))
    /\ (InHistory("check_energy") /\ Failed(1) # {}) => SweepFailed
    /\ (InHistory("check_kspacing") /\ Failed(2) # {}) => SweepFailed

\* C28: the encoding of the stage-2 keys round-trips: the value that
\* check_kspacing decodes from the key run_kspacing wrote for a spacing is
\* that spacing, so the keys of the kspacing result table and the
\* suggested kspacing are values of kspacing_list.
CounterC28 ==
    /\ KeysRoundTrip
    /\ Stage2Selected => ctx.kspacing.value \in SpacingValues
    /\ "suggested" \in DOMAIN outputs =>
           outputs.suggested.kspacing \in SpacingValues

====
